---- MODULE Spec2Model ----
(***************************************************************************)
(* Model of modules/camera_with_pose.py: the two skeleton renderers        *)
(* (draw_simplified_pose, draw_custom_pose) and the capture / infer /      *)
(* render / display loop real_time_pose_estimation.                        *)
(*                                                                         *)
(* Numbers.  Every x, y and confidence is an exact rational with           *)
(* denominator 2, stored as its integer numerator: a pixel p delivered by  *)
(* the pose model is stored as 2*p, a confidence of k tenths as 2*k (the   *)
(* unit is 1/20).  Values delivered by the pose model are even, so the     *)
(* average of two of them is an integer numerator again and no rounding    *)
(* is introduced by the encoding.  Comparisons are exact; float32 rounding *)
(* of a sum is monotone and does not change the outcome of a gate.         *)
(***************************************************************************)
EXTENDS Integers, Sequences, FiniteSets

VARIABLES
    pc,            \* position in the function under execution
    threshold,     \* confidence_threshold argument of the running call
    keypoints,     \* the frame's Persons: a sequence of arrays [0..n-1 -> keypoint]
    drawn,         \* what the last renderer call drew
    opened,        \* cap.isOpened() as observed at line 122
    exc,           \* the exception that ended the session, "none" if none
    reads,         \* calls of cap.read()
    infers,        \* calls of model(frame, conf=...)
    renders,       \* completed calls of draw_custom_pose
    displays,      \* calls of cv2.imshow
    polls,         \* calls of cv2.waitKey
    exitSeen,      \* waitKey returned ord('q')
    capReleased,   \* calls of cap.release()
    winDestroyed,  \* calls of cv2.destroyAllWindows()
    idx,           \* position of the annotation loop (line 141), 1-based
    classifyCalls, \* arguments handed to classify_pose for the current frame
    labels,        \* Persons (by position) that got a putText on the current frame
    usedThr        \* <<site, threshold>> of every visibility threshold used so far

vars == <<pc, threshold, keypoints, drawn, opened, exc, reads, infers, renders,
          displays, polls, exitSeen, capReleased, winDestroyed, idx,
          classifyCalls, labels, usedThr>>

(***************************************************************************)
(* Bounds of the model.                                                    *)
(***************************************************************************)
MaxConf == 4
MaxFrames == 3
MaxPersons == 2
MalformedJoints == 13

(***************************************************************************)
(* Fixed-point helpers.                                                    *)
(***************************************************************************)
Tenths(k) == 2 * k

Pixels(p) == 2 * p

\* int(v), lines 30, 35-36, 92, 97-98: truncation toward zero of v / 2.
PyInt(v) == IF v >= 0 THEN v \div 2 ELSE -((-v) \div 2)

\* (a + b) / 2, lines 68-70 and 78-80.
AvgMinus(a, b) == (a - b) \div 2

Avg(a, b) == (a + b) \div 2

\* keypoint[0], keypoint[1], keypoint[2]
X(kp) == kp[1]

Y(kp) == kp[2]

Conf(kp) == kp[3]

\* The comparison every gate of the file makes: conf > confidence_threshold.
visibleOrEqual(conf, thr) == conf >= thr

visible(conf, thr) == conf > thr

\* confidence_threshold=0.3, the default of all three functions.
DefaultThreshold == Tenths(3)

(***************************************************************************)
(* Topology tables.                                                        *)
(***************************************************************************)
Simplified17 ==
    { <<5, 7>>, <<7, 9>>, <<6, 8>>, <<8, 10>>,
      <<11, 13>>, <<13, 15>>, <<12, 14>>, <<14, 16>>,
      <<5, 6>>, <<11, 12>>, <<5, 11>>, <<6, 12>>,
      <<0, 5>>, <<0, 6>> }

Extended19 ==
    { <<1, 2>>, <<0, 17>>,
      <<5, 7>>, <<7, 9>>, <<6, 8>>, <<8, 10>>,
      <<17, 5>>, <<17, 6>>, <<18, 11>>, <<18, 12>>,
      <<11, 13>>, <<13, 15>>, <<12, 14>>, <<14, 16>>,
      <<17, 18>> }

(***************************************************************************)
(* draw_simplified_pose, per Person.  person is the numpy array            *)
(* [0 .. n-1 -> keypoint].                                                 *)
(***************************************************************************)
NumJoints(person) == Cardinality(DOMAIN person)

SimplifiedRaises(person) ==
    \E e \in Simplified17 : e[1] \notin DOMAIN person \/ e[2] \notin DOMAIN person

SimplifiedMarkers(person, thr) ==
    { [joint |-> i, at |-> <<PyInt(X(person[i])), PyInt(Y(person[i]))>>] :
        i \in { j \in DOMAIN person : visible(Conf(person[j]), thr) } }

SimplifiedLines(person, thr) ==
    { [a |-> e[1], b |-> e[2],
       from |-> <<PyInt(X(person[e[1]])), PyInt(Y(person[e[1]]))>>,
       to |-> <<PyInt(X(person[e[2]])), PyInt(Y(person[e[2]]))>>] :
        e \in { s \in Simplified17 :
                  /\ visible(Conf(person[s[1]]), thr)
                  /\ visible(Conf(person[s[2]]), thr) } }

DrawSimplifiedPerson(person, thr) ==
    IF SimplifiedRaises(person)
    THEN [person |-> person, raised |-> TRUE, markers |-> {}, lines |-> {}]
    ELSE [person |-> person, raised |-> FALSE,
          markers |-> SimplifiedMarkers(person, thr),
          lines |-> SimplifiedLines(person, thr)]

DrawSimplifiedPose(kps, thr) ==
    [fn |-> "simplified",
     raised |-> \E k \in 1..Len(kps) : SimplifiedRaises(kps[k]),
     persons |-> [k \in 1..Len(kps) |-> DrawSimplifiedPerson(kps[k], thr)]]

(***************************************************************************)
(* draw_custom_pose, per Person.                                           *)
(***************************************************************************)
\* person.tolist(): the numpy array as a Python list (a sequence, subscript
\* i of the list is element i + 1 of the sequence).
ToList(person) == [i \in 1..NumJoints(person) |-> person[i - 1]]

\* keypts[i] on the Python list
ListAt(keypts, i) == keypts[i + 1]

InvalidJointLow == <<0, 0, Tenths(1)>>

InvalidJoint == <<0, 0, 0>>

\* The midpoint of person[i] and person[j] if both pass the gate, else [0, 0, 0].
MidpointLeft(person, i, j, thr) ==
    IF visible(Conf(person[i]), thr) /\ visible(Conf(person[j]), thr)
    THEN person[i]
    ELSE InvalidJoint

Midpoint(person, i, j, thr) ==
    IF visible(Conf(person[i]), thr) /\ visible(Conf(person[j]), thr)
    THEN << Avg(X(person[i]), X(person[j])),
            Avg(Y(person[i]), Y(person[j])),
            Avg(Conf(person[i]), Conf(person[j])) >>
    ELSE InvalidJoint

Neck(person, thr) == Midpoint(person, 5, 6, thr)

Pelvis(person, thr) == Midpoint(person, 11, 12, thr)

Keypts(person, thr) ==
    Append(Append(ToList(person), Neck(person, thr)), Pelvis(person, thr))

\* An IndexError: person[5], [6], [11], [12] at lines 66-80, keypts[i], keypts[j]
\* at line 96.
CustomRaises(person) ==
    \/ \E i \in {5, 6, 11, 12} : i \notin DOMAIN person
    \/ \E e \in Extended19 : e[1] + 1 > NumJoints(person) + 2
                              \/ e[2] + 1 > NumJoints(person) + 2

CustomMarkers(keypts, thr) ==
    { [joint |-> i, at |-> <<PyInt(X(ListAt(keypts, i))), PyInt(Y(ListAt(keypts, i)))>>] :
        i \in { j \in 0..(Len(keypts) - 1) : visible(Conf(ListAt(keypts, j)), thr) } }

CustomLines(keypts, thr) ==
    { [a |-> e[1], b |-> e[2],
       from |-> <<PyInt(X(ListAt(keypts, e[1]))), PyInt(Y(ListAt(keypts, e[1])))>>,
       to |-> <<PyInt(X(ListAt(keypts, e[2]))), PyInt(Y(ListAt(keypts, e[2])))>>] :
        e \in { s \in Extended19 :
                  /\ visible(Conf(ListAt(keypts, s[1])), thr)
                  /\ visible(Conf(ListAt(keypts, s[2])), thr) } }

DrawCustomPerson(person, thr) ==
    IF CustomRaises(person)
    THEN [person |-> person, raised |-> TRUE, keypts |-> <<>>,
          markers |-> {}, lines |-> {}]
    ELSE [person |-> person, raised |-> FALSE,
          keypts |-> Keypts(person, thr),
          markers |-> CustomMarkers(Keypts(person, thr), thr),
          lines |-> CustomLines(Keypts(person, thr), thr)]

DrawCustomPose(kps, thr) ==
    [fn |-> "custom",
     raised |-> \E k \in 1..Len(kps) : CustomRaises(kps[k]),
     persons |-> [k \in 1..Len(kps) |-> DrawCustomPerson(kps[k], thr)]]

NothingDrawn == [fn |-> "none", raised |-> FALSE, persons |-> <<>>]

(***************************************************************************)
(* Inputs.                                                                 *)
(***************************************************************************)
\* Confidences the pose model may deliver (the scale is not bounded by the
\* code) and thresholds a caller may pass.
Confs == { Tenths(-2), Tenths(0) } \cup { Tenths(k) : k \in 2..MaxConf }

Thresholds == { Tenths(-1), Tenths(0), Tenths(2), DefaultThreshold }

\* A Person of the pose model: 17 joints at fixed pixel positions; joints a and
\* b carry the confidences ca and cb, every other joint c0.
Person(a, b, ca, cb, c0) ==
    [i \in 0..16 |->
        << Pixels(i * i), Pixels(3 * i),
           IF i = a THEN ca ELSE IF i = b THEN cb ELSE c0 >>]

RenderPersons ==
    { Person(a, b, ca, cb, c0) :
        a \in 0..16, b \in 0..16, ca \in Confs, cb \in Confs,
        c0 \in {Tenths(0), Tenths(MaxConf)} }

\* Argument lists of a renderer call: no Person, one Person, or a fully
\* visible Person followed by one Person.
FullPerson == Person(0, 0, Tenths(MaxConf), Tenths(MaxConf), Tenths(MaxConf))

RenderInputs ==
    { <<>> } \cup { <<p>> : p \in RenderPersons }
             \cup { <<FullPerson, p>> : p \in RenderPersons }

\* What the pose model can return for a frame (results[0].keypoints.data):
\* up to MaxPersons Persons of 17 joints, or an array of the wrong shape.
SeqsUpTo(S, n) == UNION { [1..m -> S] : m \in 0..n }

LoopPersons ==
    { Person(0, 0, cn, cn, c0) :
        cn \in {Tenths(0), Tenths(MaxConf)}, c0 \in {Tenths(0), Tenths(MaxConf)} }

MalformedPerson ==
    [i \in 0..(MalformedJoints - 1) |-> <<Pixels(i * i), Pixels(3 * i), Tenths(MaxConf)>>]

FrameInputs == SeqsUpTo(LoopPersons, MaxPersons) \cup { <<MalformedPerson>> }

(***************************************************************************)
(* Calls of the two renderers on arbitrary inputs.                         *)
(***************************************************************************)
RenderInit ==
    /\ pc = "call"
    /\ threshold \in Thresholds
    /\ keypoints \in RenderInputs
    /\ drawn = NothingDrawn
    /\ opened = FALSE
    /\ exc = "none"
    /\ reads = 0 /\ infers = 0 /\ renders = 0 /\ displays = 0 /\ polls = 0
    /\ exitSeen = FALSE
    /\ capReleased = 0 /\ winDestroyed = 0
    /\ idx = 1
    /\ classifyCalls = <<>>
    /\ labels = {}
    /\ usedThr = {}

loopVars == <<opened, exc, reads, infers, renders, displays, polls, exitSeen,
              capReleased, winDestroyed, idx, classifyCalls, labels>>

\* The arrays as the renderer leaves them
PersonsAfter(r) == [k \in 1..Len(r.persons) |-> r.persons[k].person]

CallCustom ==
    /\ pc = "call"
    /\ drawn' = DrawCustomPose(keypoints, threshold)
    /\ keypoints' = PersonsAfter(drawn')
    /\ usedThr' = usedThr \cup { <<"render", threshold>> }
    /\ pc' = "custom"
    /\ UNCHANGED <<threshold, loopVars>>

CallSimplified ==
    /\ pc = "call"
    /\ drawn' = DrawSimplifiedPose(keypoints, threshold)
    /\ keypoints' = PersonsAfter(drawn')
    /\ usedThr' = usedThr \cup { <<"render", threshold>> }
    /\ pc' = "simplified"
    /\ UNCHANGED <<threshold, loopVars>>

RenderNext == CallCustom \/ CallSimplified

RenderSpec == RenderInit /\ [][RenderNext]_vars

(***************************************************************************)
(* real_time_pose_estimation.                                              *)
(***************************************************************************)
Init ==
    /\ pc = "open"
    /\ threshold \in Thresholds
    /\ keypoints = <<>>
    /\ drawn = NothingDrawn
    /\ opened = FALSE
    /\ exc = "none"
    /\ reads = 0 /\ infers = 0 /\ renders = 0 /\ displays = 0 /\ polls = 0
    /\ exitSeen = FALSE
    /\ capReleased = 0 /\ winDestroyed = 0
    /\ idx = 1
    /\ classifyCalls = <<>>
    /\ labels = {}
    /\ usedThr = {}

\* lines 118-126, cap.isOpened() true
OpenOk ==
    /\ pc = "open"
    /\ opened' = TRUE
    /\ pc' = "read"
    /\ UNCHANGED <<threshold, keypoints, drawn, exc, reads, infers, renders,
                   displays, polls, exitSeen, capReleased, winDestroyed, idx,
                   classifyCalls, labels, usedThr>>

\* lines 122-124, cap.isOpened() false: return
OpenFail ==
    /\ pc = "open"
    /\ opened' = FALSE
    /\ pc' = "done"
    /\ UNCHANGED <<threshold, keypoints, drawn, exc, reads, infers, renders,
                   displays, polls, exitSeen, capReleased, winDestroyed, idx,
                   classifyCalls, labels, usedThr>>

\* line 129, ret true; the capture source holds MaxFrames frames
ReadOk ==
    /\ pc = "read"
    /\ reads < MaxFrames
    /\ reads' = reads + 1
    /\ pc' = "infer"
    /\ UNCHANGED <<threshold, keypoints, drawn, opened, exc, infers, renders,
                   displays, polls, exitSeen, capReleased, winDestroyed, idx,
                   classifyCalls, labels, usedThr>>

\* lines 129-132, ret false: break
ReadFail ==
    /\ pc = "read"
    /\ reads' = reads + 1
    /\ pc' = "release"
    /\ UNCHANGED <<threshold, keypoints, drawn, opened, exc, infers, renders,
                   displays, polls, exitSeen, capReleased, winDestroyed, idx,
                   classifyCalls, labels, usedThr>>

\* lines 135-136
InferOk ==
    /\ pc = "infer"
    /\ infers' = infers + 1
    /\ keypoints' \in FrameInputs
    /\ usedThr' = usedThr \cup { <<"model", threshold>> }
    /\ drawn' = NothingDrawn
    /\ classifyCalls' = <<>>
    /\ labels' = {}
    /\ idx' = 1
    /\ pc' = "render"
    /\ UNCHANGED <<threshold, opened, exc, reads, renders, displays, polls,
                   exitSeen, capReleased, winDestroyed>>

\* line 135, the pose model raises: the exception leaves the function
InferRaise ==
    /\ pc = "infer"
    /\ infers' = infers + 1
    /\ usedThr' = usedThr \cup { <<"model", threshold>> }
    /\ exc' = "model"
    /\ pc' = "done"
    /\ UNCHANGED <<threshold, keypoints, drawn, opened, reads, renders, displays,
                   polls, exitSeen, capReleased, winDestroyed, idx,
                   classifyCalls, labels>>

\* line 139: draw_custom_pose(frame, keypoints), no threshold handed over
RenderOk ==
    /\ pc = "render"
    /\ ~DrawCustomPose(keypoints, DefaultThreshold).raised
    /\ drawn' = DrawCustomPose(keypoints, DefaultThreshold)
    /\ keypoints' = PersonsAfter(drawn')
    /\ usedThr' = usedThr \cup { <<"render", DefaultThreshold>> }
    /\ renders' = renders + 1
    /\ idx' = 1
    /\ pc' = "annotate"
    /\ UNCHANGED <<threshold, opened, exc, reads, infers, displays, polls,
                   exitSeen, capReleased, winDestroyed, classifyCalls, labels>>

\* line 139, IndexError on a malformed Person: the exception leaves the function
RenderRaise ==
    /\ pc = "render"
    /\ DrawCustomPose(keypoints, DefaultThreshold).raised
    /\ drawn' = DrawCustomPose(keypoints, DefaultThreshold)
    /\ usedThr' = usedThr \cup { <<"render", DefaultThreshold>> }
    /\ exc' = "renderer"
    /\ pc' = "done"
    /\ UNCHANGED <<threshold, keypoints, opened, reads, infers, renders, displays,
                   polls, exitSeen, capReleased, winDestroyed, idx,
                   classifyCalls, labels>>

\* lines 141-148 with the classifier called only under the nose gate
ClassifyOkGated ==
    /\ pc = "annotate"
    /\ idx <= Len(keypoints)
    /\ IF visible(Conf(keypoints[idx][0]), threshold)
       THEN /\ classifyCalls' = Append(classifyCalls, keypoints[idx])
            /\ labels' = labels \cup {idx}
       ELSE UNCHANGED <<classifyCalls, labels>>
    /\ usedThr' = usedThr \cup { <<"annotate", threshold>> }
    /\ idx' = idx + 1
    /\ UNCHANGED <<pc, threshold, keypoints, drawn, opened, exc, reads, infers,
                   renders, displays, polls, exitSeen, capReleased, winDestroyed>>

\* lines 141-148, one Person: classify_pose(person), then putText under the
\* nose gate
ClassifyOk ==
    /\ pc = "annotate"
    /\ idx <= Len(keypoints)
    /\ classifyCalls' = Append(classifyCalls, keypoints[idx])
    /\ labels' = IF visible(Conf(keypoints[idx][0]), threshold)
                 THEN labels \cup {idx}
                 ELSE labels
    /\ usedThr' = usedThr \cup { <<"annotate", threshold>> }
    /\ idx' = idx + 1
    /\ UNCHANGED <<pc, threshold, keypoints, drawn, opened, exc, reads, infers,
                   renders, displays, polls, exitSeen, capReleased, winDestroyed>>

\* line 142, classify_pose raises: the exception leaves the function
ClassifyRaise ==
    /\ pc = "annotate"
    /\ idx <= Len(keypoints)
    /\ classifyCalls' = Append(classifyCalls, keypoints[idx])
    /\ exc' = "classifier"
    /\ pc' = "done"
    /\ UNCHANGED <<threshold, keypoints, drawn, opened, reads, infers, renders,
                   displays, polls, exitSeen, capReleased, winDestroyed, idx,
                   labels, usedThr>>

\* line 150, after the annotation loop
Display ==
    /\ pc = "annotate"
    /\ idx > Len(keypoints)
    /\ displays' = displays + 1
    /\ pc' = "poll"
    /\ UNCHANGED <<threshold, keypoints, drawn, opened, exc, reads, infers,
                   renders, polls, exitSeen, capReleased, winDestroyed, idx,
                   classifyCalls, labels, usedThr>>

\* line 153 with the break missing
PollQuitNoBreak ==
    /\ pc = "poll"
    /\ polls' = polls + 1
    /\ exitSeen' = TRUE
    /\ pc' = "read"
    /\ UNCHANGED <<threshold, keypoints, drawn, opened, exc, reads, infers,
                   renders, displays, capReleased, winDestroyed, idx,
                   classifyCalls, labels, usedThr>>

\* lines 153-154, waitKey returns ord('q'): break
PollQuit ==
    /\ pc = "poll"
    /\ polls' = polls + 1
    /\ exitSeen' = TRUE
    /\ pc' = "release"
    /\ UNCHANGED <<threshold, keypoints, drawn, opened, exc, reads, infers,
                   renders, displays, capReleased, winDestroyed, idx,
                   classifyCalls, labels, usedThr>>

\* line 153, any other key or none: next iteration
PollContinue ==
    /\ pc = "poll"
    /\ polls' = polls + 1
    /\ pc' = "read"
    /\ UNCHANGED <<threshold, keypoints, drawn, opened, exc, reads, infers,
                   renders, displays, exitSeen, capReleased, winDestroyed, idx,
                   classifyCalls, labels, usedThr>>

\* line 157
Release ==
    /\ pc = "release"
    /\ capReleased' = capReleased + 1
    /\ pc' = "destroy"
    /\ UNCHANGED <<threshold, keypoints, drawn, opened, exc, reads, infers,
                   renders, displays, polls, exitSeen, winDestroyed, idx,
                   classifyCalls, labels, usedThr>>

\* lines 158-159
Destroy ==
    /\ pc = "destroy"
    /\ winDestroyed' = winDestroyed + 1
    /\ pc' = "done"
    /\ UNCHANGED <<threshold, keypoints, drawn, opened, exc, reads, infers,
                   renders, displays, polls, exitSeen, capReleased, idx,
                   classifyCalls, labels, usedThr>>

\* KeyboardInterrupt anywhere after the device was opened: no handler, no
\* finally, the exception leaves the function
Interrupt ==
    /\ pc \in {"read", "infer", "render", "annotate", "poll", "release", "destroy"}
    /\ exc' = "interrupt"
    /\ pc' = "done"
    /\ UNCHANGED <<threshold, keypoints, drawn, opened, reads, infers, renders,
                   displays, polls, exitSeen, capReleased, winDestroyed, idx,
                   classifyCalls, labels, usedThr>>

Next ==
    \/ OpenOk \/ OpenFail
    \/ ReadOk \/ ReadFail
    \/ InferOk \/ InferRaise
    \/ RenderOk \/ RenderRaise
    \/ ClassifyOk \/ ClassifyRaise
    \/ Display
    \/ PollQuit \/ PollContinue
    \/ Release \/ Destroy
    \/ Interrupt

Spec == Init /\ [][Next]_vars

(***************************************************************************)
(* Properties of the session loop (specification Spec).                    *)
(***************************************************************************)

\* C1: if the camera does not report ready, the session reads no frame, runs
\* no inference, renders and displays nothing, and still releases the device
\* handle and the display resources exactly once before it ends.
C1_OpenFailureStillReleases ==
    (pc = "done" /\ ~opened) =>
        /\ reads = 0 /\ infers = 0 /\ renders = 0 /\ displays = 0
        /\ capReleased = 1
        /\ winDestroyed = 1

\* C2: on every path by which a session ends after the device handle was
\* acquired, the device handle and the display resources are each released
\* exactly once, never zero times and never twice.
C2_ReleasedExactlyOnceOnEveryExit ==
    /\ capReleased <= 1
    /\ winDestroyed <= 1
    /\ (pc = "done" /\ opened) => (capReleased = 1 /\ winDestroyed = 1)

C3_AtExit ==
    /\ exitSeen =>
        /\ polls >= 1
        /\ reads = polls /\ infers = polls /\ renders = polls /\ displays = polls
        /\ pc \in {"release", "destroy", "done"}
    /\ (exitSeen /\ pc = "done" /\ exc = "none") =>
        (capReleased = 1 /\ winDestroyed = 1)

C3_Step ==
    /\ exitSeen =>
        /\ exitSeen'
        /\ UNCHANGED <<reads, infers, renders, displays, polls>>
    /\ (~exitSeen /\ exitSeen') =>
        (displays = polls + 1 /\ UNCHANGED <<reads, infers, renders, displays>>)
    /\ pc = "done" => UNCHANGED vars

\* C3: when frames are delivered and the exit key is first seen by the poll of
\* iteration k (and nothing raises or interrupts), the loop has performed
\* exactly k acquire / infer / render / display cycles, the k-th frame having
\* been displayed before that poll; nothing is acquired, inferred, rendered or
\* displayed after the poll; the session ends with the device handle and the
\* display resources released; the terminal state is never left again.
C3_ExitKeyEndsAfterKCycles == [](C3_AtExit) /\ [][C3_Step]_vars

C3_Witness ==
    /\ exitSeen /\ pc = "done" /\ exc = "none"
    /\ displays = MaxFrames /\ polls = MaxFrames
    /\ capReleased = 1 /\ winDestroyed = 1

\* C4: an error raised by the classifier for one Person never aborts the
\* video pipeline (the session does not end by that error).
C4_ClassifierFailureDoesNotAbort ==
    ~(pc = "done" /\ exc = "classifier")

\* C5: every visibility threshold used in a session started with threshold t
\* (handed to the pose model, used by the Extended-19 renderer and its
\* synthesis, used by the annotator) is t.
C5_OneThresholdPerSession ==
    \A u \in usedThr : u[2] = threshold

C10_Frame ==
    /\ Len(classifyCalls) <= Len(keypoints)
    /\ \A i \in 1..Len(classifyCalls) :
          /\ classifyCalls[i] = keypoints[i]
          /\ DOMAIN classifyCalls[i] = 0..16
    /\ (pc = "annotate") => Len(classifyCalls) = idx - 1
    /\ (pc = "poll") => Len(classifyCalls) = Len(keypoints)
    /\ (pc \in {"annotate", "poll"}) =>
          labels = { i \in 1..Len(classifyCalls) : Conf(keypoints[i][0]) > threshold }

C10_Step ==
    /\ Len(classifyCalls') > Len(classifyCalls) =>
          /\ classifyCalls' = Append(classifyCalls, keypoints[Len(classifyCalls) + 1])
          /\ drawn.fn = "custom" /\ ~drawn.raised
          /\ renders = reads
          /\ displays = reads - 1 /\ displays' = displays
    /\ displays' > displays =>
          /\ Len(classifyCalls) = Len(keypoints)
          /\ labels' = { i \in 1..Len(keypoints) : Conf(keypoints[i][0]) > threshold }

\* C10: in an iteration with an acquired frame that runs to its display, the
\* classifier is invoked exactly once per detected Person, in order, after the
\* Extended-19 render of the frame and before its display, on the raw 17-joint
\* array, whether or not the nose is visible; the label is drawn for a Person
\* iff the confidence of its nose joint is strictly above the threshold.
C10_ClassifyOncePerPersonLabelIffNose == [](C10_Frame) /\ [][C10_Step]_vars

C10_Witness ==
    /\ pc = "poll"
    /\ Len(classifyCalls) = MaxPersons
    /\ labels # {}
    /\ Cardinality(labels) < Len(classifyCalls)

(***************************************************************************)
(* Properties of the renderers (specification RenderSpec).                 *)
(***************************************************************************)

\* The joint array draw_custom_pose draws Person k from
JointArray(k) == drawn.persons[k].keypts

\* Confidence of joint i of Person k: raw for i <= 16, synthesized above
JointConf(k, i) ==
    IF i <= 16 THEN Conf(keypoints[k][i]) ELSE Conf(JointArray(k)[i + 1])

HasLine(k, a, b) == \E l \in drawn.persons[k].lines : l.a = a /\ l.b = b

HasMarker(k, i) == \E m \in drawn.persons[k].markers : m.joint = i

\* C6: in both renderers, for every Person, a segment (a, b) is drawn iff
\* (a, b) is in the topology table in use and both joints a and b have
\* confidence strictly above the threshold.
C6_SegmentIffBothEndpointsVisible ==
    /\ pc = "custom" =>
        \A k \in 1..Len(keypoints) : \A a, b \in 0..18 :
            HasLine(k, a, b) <=>
                /\ <<a, b>> \in Extended19
                /\ JointConf(k, a) > threshold
                /\ JointConf(k, b) > threshold
    /\ pc = "simplified" =>
        \A k \in 1..Len(keypoints) : \A a, b \in 0..16 :
            HasLine(k, a, b) <=>
                /\ <<a, b>> \in Simplified17
                /\ Conf(keypoints[k][a]) > threshold
                /\ Conf(keypoints[k][b]) > threshold

C6_Witness ==
    /\ pc = "custom"
    /\ \E k \in 1..Len(keypoints) :
        /\ HasLine(k, 17, 18)
        /\ \E e \in Extended19 :
            /\ JointConf(k, e[1]) > threshold
            /\ JointConf(k, e[2]) <= threshold
            /\ ~HasLine(k, e[1], e[2])

\* Joint s of the array kp is the one synthesized from anchors i and j of the
\* raw Person p under threshold t.
SynthesizedAs(kp, s, p, i, j, t) ==
    IF Conf(p[i]) > t /\ Conf(p[j]) > t
    THEN /\ 2 * X(kp[s + 1]) = X(p[i]) + X(p[j])
         /\ 2 * Y(kp[s + 1]) = Y(p[i]) + Y(p[j])
         /\ 2 * Conf(kp[s + 1]) = Conf(p[i]) + Conf(p[j])
    ELSE kp[s + 1] = <<0, 0, 0>>

C7_Call ==
    (pc = "call" /\ pc' = "custom") =>
        /\ keypoints' = keypoints
        /\ \A k \in 1..Len(keypoints) :
            LET kp == drawn'.persons[k].keypts
                p == keypoints[k]
            IN /\ Len(kp) = 19
               /\ \A i \in 0..16 : kp[i + 1] = p[i]
               /\ SynthesizedAs(kp, 17, p, 5, 6, threshold)
               /\ SynthesizedAs(kp, 18, p, 11, 12, threshold)

\* C7: the joint array draw_custom_pose draws from has length 19, indices
\* 0-16 are the raw joints, index 17 is the componentwise average of joints 5
\* and 6 when both are strictly above the threshold and (0,0,0) otherwise,
\* index 18 likewise from joints 11 and 12; the input array is not modified.
C7_SynthesizedArray == [][C7_Call]_vars

C7_Witness ==
    /\ pc = "custom"
    /\ \E k \in 1..Len(keypoints) :
        /\ Conf(keypoints[k][5]) > threshold
        /\ Conf(keypoints[k][6]) > threshold
        /\ Conf(keypoints[k][5]) # Conf(keypoints[k][6])
        /\ Conf(keypoints[k][11]) <= threshold
        /\ JointArray(k)[18] # <<0, 0, 0>>
        /\ JointArray(k)[19] = <<0, 0, 0>>

\* Joint s of Person k was synthesized invalid because an anchor failed the gate
AnchorFailed(k, i, j) ==
    Conf(keypoints[k][i]) <= threshold \/ Conf(keypoints[k][j]) <= threshold

NeverDrawn(k, s) ==
    /\ ~HasMarker(k, s)
    /\ \A l \in drawn.persons[k].lines : l.a # s /\ l.b # s

\* C8 as stated: for every caller-supplied threshold, a neck or pelvis
\* synthesized as (0,0,0) fails the gate: no marker and no segment at it.
C8_InvalidJointNeverDrawn ==
    pc = "custom" =>
        \A k \in 1..Len(keypoints) :
            /\ AnchorFailed(k, 5, 6) => NeverDrawn(k, 17)
            /\ AnchorFailed(k, 11, 12) => NeverDrawn(k, 18)

\* C8 amended: the same for every threshold that is not negative.
C8_InvalidJointNeverDrawnNonNegative ==
    (pc = "custom" /\ threshold >= 0) =>
        \A k \in 1..Len(keypoints) :
            /\ AnchorFailed(k, 5, 6) => NeverDrawn(k, 17)
            /\ AnchorFailed(k, 11, 12) => NeverDrawn(k, 18)

C8_Witness ==
    /\ pc = "custom"
    /\ threshold >= 0
    /\ \E k \in 1..Len(keypoints) :
        /\ Conf(keypoints[k][5]) <= threshold
        /\ Conf(keypoints[k][6]) > threshold
        /\ Conf(keypoints[k][0]) > threshold
        /\ JointArray(k)[18] = <<0, 0, 0>>
        /\ HasMarker(k, 0) /\ HasMarker(k, 6)
        /\ NeverDrawn(k, 17)

\* C9 as stated: there are anchor confidences, both strictly above the
\* threshold, whose synthesized joint fails the gate.
C9_SynthesizedJointCanFailGate ==
    \E ca, cb \in Confs :
        /\ ca > threshold /\ cb > threshold
        /\ ~(Conf(Neck(Person(5, 6, ca, cb, 0), threshold)) > threshold)

SynthesizedVisible(k, s, i, j) ==
    (Conf(keypoints[k][i]) > threshold /\ Conf(keypoints[k][j]) > threshold) =>
        /\ 2 * JointConf(k, s) = Conf(keypoints[k][i]) + Conf(keypoints[k][j])
        /\ JointConf(k, s) > threshold
        /\ HasMarker(k, s)
        /\ HasLine(k, s, i) /\ HasLine(k, s, j)

\* C9 amended: when both anchors pass the gate the synthesized confidence is
\* the average of the two anchor confidences, and the synthesized joint then
\* always passes the gate itself: its marker and its segments to the two
\* anchors are drawn.
C9_SynthesizedJointPassesGate ==
    pc = "custom" =>
        \A k \in 1..Len(keypoints) :
            /\ SynthesizedVisible(k, 17, 5, 6)
            /\ SynthesizedVisible(k, 18, 11, 12)

C9_Witness ==
    /\ pc = "custom"
    /\ \E k \in 1..Len(keypoints) :
        /\ Conf(keypoints[k][5]) = threshold + Tenths(1)
        /\ Conf(keypoints[k][6]) = threshold + Tenths(2)
        /\ JointConf(k, 17) = threshold + Tenths(1) + 1
        /\ HasMarker(k, 17)
        /\ HasLine(k, 17, 5)

====
